---- MODULE Spec2Model ----
(***************************************************************************)
(* Image Folder to PDF: the conversion worker (ConverterWorker::process),  *)
(* the window that starts it (MainWindow) and the queued signal deliveries *)
(* between the worker thread and the GUI thread.                           *)
(*                                                                         *)
(* Strings that the program inspects (file names, paths, the text of the   *)
(* path field) are sequences of character codes, so that filtering,        *)
(* sorting, trimming and path building are computed, not assumed.          *)
(***************************************************************************)
EXTENDS Integers, Sequences, FiniteSets, TLC

(* ------------------------------ bounds -------------------------------- *)
\* largest number of directory entries of a small folder
MaxFiles == 2
\* largest number of conversions started in one run of the application
MaxJobs == 2
\* largest number of images of a large folder (all images alike)
MaxBig == 103
\* how many large-folder sizes below MaxBig are explored
BigSpan == 3
\* largest number of signals waiting in the GUI thread's queue when a worker
\* takes its next step
MaxQueue == 3

(* --------------------------- program constants ------------------------ *)
kDefaultDpi == 150
PointsPerInch == 72
ProgressMin == 0
ProgressMax == 100

\* "images.pdf"
kOutputFilenamePng == <<105, 109, 97, 103, 101, 115, 46, 112, 110, 103>>

kOutputFilename == <<105, 109, 97, 103, 101, 115, 46, 112, 100, 102>>

\* a filter list that also lets "*.txt" through
kImageFiltersWithTxt ==
    << <<42, 46, 106, 112, 103>>,
       <<42, 46, 112, 110, 103>>,
       <<42, 46, 116, 120, 116>> >>

\* "*.jpg", "*.jpeg", "*.png", "*.tif", "*.tiff", "*.bmp", "*.webp"
kImageFilters ==
    << <<42, 46, 106, 112, 103>>,
       <<42, 46, 106, 112, 101, 103>>,
       <<42, 46, 112, 110, 103>>,
       <<42, 46, 116, 105, 102>>,
       <<42, 46, 116, 105, 102, 102>>,
       <<42, 46, 98, 109, 112>>,
       <<42, 46, 119, 101, 98, 112>> >>

(* ------------------------------ strings ------------------------------- *)
Slash == 47
Space == 32
Star == 42

\* QChar::toLower on the ASCII range
ToLower(c) == IF c \in 65..90 THEN c + 32 ELSE c

LowerStr(s) == [i \in 1..Len(s) |-> ToLower(s[i])]

\* lexicographic "less than" on code sequences (QString::compare < 0)
StrLess(a, b) ==
    \E k \in 1..(Len(a) + 1) :
        /\ k <= Len(b)
        /\ \A i \in 1..(k - 1) : a[i] = b[i]
        /\ \/ k = Len(a) + 1
           \/ k <= Len(a) /\ a[k] < b[k]

EndsWith(s, suffix) ==
    /\ Len(suffix) <= Len(s)
    /\ \A i \in 1..Len(suffix) : s[Len(s) - Len(suffix) + i] = suffix[i]

\* a name filter "*<suffix>" of QDir, matched case-insensitively
MatchesFilter(name, pattern) ==
    /\ Len(pattern) >= 1
    /\ pattern[1] = Star
    /\ EndsWith(LowerStr(name), LowerStr(Tail(pattern)))

MatchesAnyFilter(name, filters) ==
    \E k \in 1..Len(filters) : MatchesFilter(name, filters[k])

\* QString::trimmed : drop leading and trailing white space
RECURSIVE TrimLeft(_)
TrimLeft(s) == IF s # <<>> /\ Head(s) = Space THEN TrimLeft(Tail(s)) ELSE s

RECURSIVE TrimRight(_)
TrimRight(s) ==
    IF s # <<>> /\ s[Len(s)] = Space THEN TrimRight(SubSeq(s, 1, Len(s) - 1)) ELSE s

Trimmed(s) == TrimRight(TrimLeft(s))

\* QDir::absoluteFilePath : <dir>/<file>
AbsoluteFilePath(dir, file) == dir \o <<Slash>> \o file

(* ------------------------------ images -------------------------------- *)
\* a QImage: null when the file is missing or cannot be decoded
NullImage == [null |-> TRUE, width |-> 0, height |-> 0]

Image(w, h) == [null |-> FALSE, width |-> w, height |-> h]

\* what the bytes of a file decode to
CorruptData == NullImage
ImageData == {Image(100, 200), Image(400, 100)}

\* a length in points, kept exact: num / den
Pt(n) == [num |-> n, den |-> 1]

RatEq(a, b) == a.num * b.den = b.num * a.den

\* QSizeF in points
NoPageSize == [w |-> Pt(0), h |-> Pt(0)]

pageSizeForImageInverted(image, dpi) ==
    [w |-> [num |-> image.width * dpi, den |-> PointsPerInch],
     h |-> [num |-> image.height * dpi, den |-> PointsPerInch]]

\* pageSizeForImage(image, dpi): width * 72.0 / dpi by height * 72.0 / dpi
pageSizeForImage(image, dpi) ==
    [w |-> [num |-> image.width * PointsPerInch, den |-> dpi],
     h |-> [num |-> image.height * PointsPerInch, den |-> dpi]]

\* QPageLayout::fullRectPixels(resolution).size(): points * resolution / 72,
\* rounded to the nearest pixel
PixelsOf(len, resolution) ==
    (2 * len.num * resolution + len.den * PointsPerInch)
        \div (2 * len.den * PointsPerInch)

fullRectPixels(size, resolution) ==
    [w |-> PixelsOf(size.w, resolution), h |-> PixelsOf(size.h, resolution)]

(* ---------------------------- the file system ------------------------- *)
\* the one folder the user can name: "/F"
FolderPath == <<47, 70>>

\* a directory entry: a name, whether it is a regular file, whether it is
\* readable, and what its bytes decode to
Entry(name, isFile, readable, data) ==
    [name |-> name, isFile |-> isFile, readable |-> readable, data |-> data]

\* the output file: absent, or a document with its pages. complete is set by
\* the writer's finalisation; clobbered is set when a writer that no longer
\* is the latest one to have opened the path writes through its stale handle
AbsentFile ==
    [exists |-> FALSE, pages |-> <<>>, complete |-> FALSE, clobbered |-> FALSE,
     owner |-> 0]

Page(size, image, rect) == [size |-> size, image |-> image, rect |-> rect]

NoRect == [w |-> 0, h |-> 0]

\* an images.pdf left in the folder by an earlier run of the application
LeftoverFile ==
    [exists |-> TRUE,
     pages |-> << Page(pageSizeForImage(Image(400, 100), kDefaultDpi),
                       Image(400, 100), [w |-> 400, h |-> 100]) >>,
     complete |-> TRUE, clobbered |-> FALSE, owner |-> 0]

\* QDir::entryList(nameFilters, QDir::Files | QDir::Readable, ...): which
\* entries are listed
Listed(e, filters) ==
    /\ e.isFile
    /\ e.readable
    /\ MatchesAnyFilter(e.name, filters)

\* QDir::Name | QDir::IgnoreCase: the names in ascending order, each at the
\* position given by how many names sort before it (names that differ only
\* in case do not occur together in a folder)
SortNames(names) ==
    LET ranked ==
            {<<Cardinality({m \in names : StrLess(LowerStr(m), LowerStr(n))}), n>> :
                n \in names}
    IN [i \in 1..Cardinality(names) |-> (CHOOSE p \in ranked : p[1] = i - 1)[2]]

\* dir.entryList(kImageFilters, Files | Readable, Name | IgnoreCase)
entryList(dirEntries, filters) ==
    SortNames({e.name : e \in {x \in dirEntries : Listed(x, filters)}})

(* ------------------------------- state -------------------------------- *)
VARIABLES
    folderExists,   \* does the folder "/F" exist
    entries,        \* its directory entries, the output file apart
    writable,       \* can images.pdf be opened for writing in it
    outFile,        \* <folder>/images.pdf
    pathEdit,       \* text of pathEdit_
    convertEnabled, \* convertButton_->isEnabled()
    progressValue,  \* progressBar_->value()
    statusText,     \* statusLabel_->text()
    lastDialog,     \* the last message box shown
    jobs,           \* one ConverterWorker per started conversion
    mainQueue       \* signals queued for delivery in the GUI thread

vars ==
    <<folderExists, entries, writable, outFile, pathEdit, convertEnabled,
      progressValue, statusText, lastDialog, jobs, mainQueue>>

\* a text with its %1 argument, if it has one
Msg(text, path) == [text |-> text, path |-> path]

NoDialog == [kind |-> "none", title |-> "", msg |-> Msg("", <<>>)]

Dialog(kind, title, msg) == [kind |-> kind, title |-> title, msg |-> msg]

\* the four signals of ConverterWorker
Ev(type, msg, value) == [type |-> type, msg |-> msg, value |-> value]

StatusEv(text) == Ev("status", Msg(text, <<>>), 0)

ProgressEv(value) == Ev("progress", Msg("", <<>>), value)

FinishedEv(outputPath) == Ev("finished", Msg("%1", outputPath), 0)

FailedEv(msg) == Ev("failed", msg, 0)

\* one file-system or writer operation of a job
IoOp(op, path) == [op |-> op, path |-> path]

\* QDir(path).exists()
DirExists(path) == folderExists /\ path = FolderPath

\* what QDir sees in the folder: its entries and, when it exists, images.pdf
\* (a regular readable file that is not an image)
DirEntries ==
    entries \cup (IF outFile.exists
                  THEN {Entry(kOutputFilename, TRUE, TRUE, CorruptData)}
                  ELSE {})

\* QImage(path): decode the file at path
QImageOf(path) ==
    LET prefix == FolderPath \o <<Slash>>
        name == SubSeq(path, Len(prefix) + 1, Len(path))
        found == {e \in entries : e.name = name /\ e.isFile /\ e.readable}
    IN IF folderExists /\ SubSeq(path, 1, Len(prefix)) = prefix /\ found # {}
       THEN (CHOOSE e \in found : TRUE).data
       ELSE NullImage

\* ConverterWorker(folderPath), moved to its thread, thread started
NewJob(folderPath, id) ==
    [id |-> id,
     pc |-> "start",
     folderPath_ |-> folderPath,
     dirExists |-> FALSE,
     files |-> <<>>,
     imagePaths |-> <<>>,
     outputPath |-> <<>>,
     firstImage |-> NullImage,
     pageSize |-> NoPageSize,
     resolution |-> 0,
     painterActive |-> FALSE,
     document |-> <<>>,
     index |-> 0,
     log |-> <<>>,
     io |-> <<>>]

\* the result of one step of process(): the worker afterwards, the signals it
\* emitted, the output file afterwards
StepResult(job, evs, file) ==
    [job |-> [job EXCEPT !.log = @ \o evs], evs |-> evs, file |-> file]

(* ------------------- ConverterWorker::process, step by step ----------- *)
\* a write through the handle of writer id: it changes the document when id
\* is the latest writer to have opened the path, and clobbers it otherwise
FileWrite(id, file, pages) ==
    IF file.owner = id THEN [file EXCEPT !.pages = pages]
    ELSE [file EXCEPT !.clobbered = TRUE]

\* QPainter::end() on the writer: the document is finalised and the file closed
FileFinalize(id, file) ==
    IF file.owner = id THEN [file EXCEPT !.complete = TRUE]
    ELSE [file EXCEPT !.clobbered = TRUE]

\* QPainter painter(&pdf): the file is created or truncated and page 1 begun
FileOpen(id, pageSize) ==
    [exists |-> TRUE,
     pages |-> << Page(pageSize, NullImage, NoRect) >>,
     complete |-> FALSE, clobbered |-> FALSE, owner |-> id]

\* the percentage taken before the asset is counted: index, not index + 1
PercentOfIndex(index, size) == (index * 100) \div size

\* static_cast<int>((index + 1) * 100.0 / imagePaths.size())
Percent(index, size) == ((index + 1) * 100) \div size

\* the existence check left out: the worker goes on to list the directory
BeginStepNoCheck(job) ==
    StepResult([job EXCEPT !.pc = "list",
                           !.io = Append(job.io, IoOp("exists", job.folderPath_)),
                           !.dirExists = DirExists(job.folderPath_)],
               << StatusEv("Scanning folder...") >>,
               outFile)

\* emit status("Scanning folder..."); if (!dir.exists()) { emit failed; return; }
BeginStep(job) ==
    LET io == Append(job.io, IoOp("exists", job.folderPath_))
    IN IF ~DirExists(job.folderPath_)
       THEN StepResult([job EXCEPT !.pc = "return", !.io = io, !.dirExists = FALSE],
                       << StatusEv("Scanning folder..."),
                          FailedEv(Msg("The provided folder does not exist.", <<>>)) >>,
                       outFile)
       ELSE StepResult([job EXCEPT !.pc = "list", !.io = io, !.dirExists = TRUE],
                       << StatusEv("Scanning folder...") >>,
                       outFile)

\* the "Creating PDF..." status emitted before the list is looked at
ListStepStatusFirst(job) ==
    LET files == entryList(DirEntries, kImageFilters)
        io == Append(job.io, IoOp("list", job.folderPath_))
    IN IF files = <<>>
       THEN StepResult([job EXCEPT !.pc = "return", !.io = io, !.files = files],
                       << StatusEv("Creating PDF..."),
                          FailedEv(Msg("No images found in the selected folder.", <<>>)) >>,
                       outFile)
       ELSE StepResult(
                [job EXCEPT !.pc = "first", !.io = io, !.files = files,
                            !.imagePaths =
                                [k \in 1..Len(files) |->
                                    AbsoluteFilePath(job.folderPath_, files[k])],
                            !.outputPath =
                                AbsoluteFilePath(job.folderPath_, kOutputFilename)],
                << StatusEv("Creating PDF...") >>,
                outFile)

\* files = dir.entryList(...); empty: emit failed, return; else build the
\* paths and emit status("Creating PDF...")
ListStep(job) ==
    LET files == entryList(DirEntries, kImageFilters)
        io == Append(job.io, IoOp("list", job.folderPath_))
    IN IF files = <<>>
       THEN StepResult([job EXCEPT !.pc = "return", !.io = io, !.files = files],
                       << FailedEv(Msg("No images found in the selected folder.", <<>>)) >>,
                       outFile)
       ELSE StepResult(
                [job EXCEPT !.pc = "first", !.io = io, !.files = files,
                            !.imagePaths =
                                [k \in 1..Len(files) |->
                                    AbsoluteFilePath(job.folderPath_, files[k])],
                            !.outputPath =
                                AbsoluteFilePath(job.folderPath_, kOutputFilename)],
                << StatusEv("Creating PDF...") >>,
                outFile)

\* the first image used without the isNull() test
FirstImageStepNoCheck(job) ==
    StepResult([job EXCEPT !.pc = "open",
                           !.io = Append(job.io, IoOp("decode", job.imagePaths[1])),
                           !.firstImage = QImageOf(job.imagePaths[1])],
               <<>>, outFile)

\* the writer created on the output path before the isNull() test
FirstImageStepWriterFirst(job) ==
    LET image == QImageOf(job.imagePaths[1])
        io == Append(job.io, IoOp("decode", job.imagePaths[1]))
    IN IF image.null
       THEN StepResult([job EXCEPT !.pc = "return",
                                   !.io = Append(io, IoOp("open", job.outputPath))],
                       << FailedEv(Msg("The first image could not be loaded.", <<>>)) >>,
                       FileOpen(job.id, NoPageSize))
       ELSE StepResult([job EXCEPT !.pc = "open", !.io = io, !.firstImage = image],
                       <<>>, outFile)

\* QImage firstImage(imagePaths.first()); null: emit failed, return
FirstImageStep(job) ==
    LET image == QImageOf(job.imagePaths[1])
        io == Append(job.io, IoOp("decode", job.imagePaths[1]))
    IN IF image.null
       THEN StepResult([job EXCEPT !.pc = "return", !.io = io],
                       << FailedEv(Msg("The first image could not be loaded.", <<>>)) >>,
                       outFile)
       ELSE StepResult([job EXCEPT !.pc = "open", !.io = io, !.firstImage = image],
                       <<>>, outFile)

\* QPdfWriter pdf(outputPath); setResolution; setPageSize; QPainter painter(&pdf);
\* not active: emit failed, return
OpenWriterStepNoReturn(job) ==
    LET size == pageSizeForImage(job.firstImage, kDefaultDpi)
        io == Append(job.io, IoOp("open", job.outputPath))
        active == writable /\ DirExists(job.folderPath_)
    IN IF ~active
       THEN StepResult([job EXCEPT !.pc = "loop", !.io = io, !.index = 0,
                                   !.resolution = kDefaultDpi, !.pageSize = size],
                       << FailedEv(Msg("Failed to initialize PDF writer.", <<>>)) >>,
                       outFile)
       ELSE StepResult([job EXCEPT !.pc = "loop", !.io = io, !.index = 0,
                                   !.resolution = kDefaultDpi, !.pageSize = size,
                                   !.painterActive = TRUE,
                                   !.document = << Page(size, NullImage, NoRect) >>],
                       <<>>, FileOpen(job.id, size))

OpenWriterStep(job) ==
    LET size == pageSizeForImage(job.firstImage, kDefaultDpi)
        io == Append(job.io, IoOp("open", job.outputPath))
        active == writable /\ DirExists(job.folderPath_)
    IN IF ~active
       THEN StepResult([job EXCEPT !.pc = "return", !.io = io,
                                   !.resolution = kDefaultDpi, !.pageSize = size],
                       << FailedEv(Msg("Failed to initialize PDF writer.", <<>>)) >>,
                       outFile)
       ELSE StepResult([job EXCEPT !.pc = "loop", !.io = io, !.index = 0,
                                   !.resolution = kDefaultDpi, !.pageSize = size,
                                   !.painterActive = TRUE,
                                   !.document = << Page(size, NullImage, NoRect) >>],
                       <<>>, FileOpen(job.id, size))

\* the loop with the progress of an asset emitted before its isNull() test
LoopStepProgressFirst(job) ==
    LET path == job.imagePaths[job.index + 1]
        image == QImageOf(path)
        size == IF job.index > 0 THEN pageSizeForImage(image, kDefaultDpi)
                ELSE job.pageSize
        began == IF job.index > 0
                 THEN Append(job.document, Page(size, NullImage, NoRect))
                 ELSE job.document
        targetRect == fullRectPixels(size, job.resolution)
        drawn == [k \in 1..Len(began) |->
                    IF k = Len(began) THEN Page(began[k].size, image, targetRect)
                    ELSE began[k]]
        ioDecode == Append(job.io, IoOp("decode", path))
        ioPage == IF job.index > 0 THEN Append(ioDecode, IoOp("newPage", job.outputPath))
                  ELSE ioDecode
        percent == ProgressEv(Percent(job.index, Len(job.imagePaths)))
    IN IF image.null
       THEN StepResult([job EXCEPT !.pc = "return", !.io = ioDecode],
                       << percent, FailedEv(Msg("Failed to load image: %1", path)) >>,
                       outFile)
       ELSE StepResult([job EXCEPT !.io = Append(ioPage, IoOp("draw", job.outputPath)),
                                   !.pageSize = size,
                                   !.document = drawn,
                                   !.index = job.index + 1],
                       << percent >>,
                       FileWrite(job.id, outFile, drawn))

\* one iteration of the loop over imagePaths
LoopStep(job) ==
    LET path == job.imagePaths[job.index + 1]
        image == QImageOf(path)
        size == IF job.index > 0 THEN pageSizeForImage(image, kDefaultDpi)
                ELSE job.pageSize
        began == IF job.index > 0
                 THEN Append(job.document, Page(size, NullImage, NoRect))
                 ELSE job.document
        targetRect == fullRectPixels(size, job.resolution)
        drawn == [k \in 1..Len(began) |->
                    IF k = Len(began) THEN Page(began[k].size, image, targetRect)
                    ELSE began[k]]
        ioDecode == Append(job.io, IoOp("decode", path))
        ioPage == IF job.index > 0 THEN Append(ioDecode, IoOp("newPage", job.outputPath))
                  ELSE ioDecode
    IN IF image.null
       THEN StepResult([job EXCEPT !.pc = "return", !.io = ioDecode],
                       << FailedEv(Msg("Failed to load image: %1", path)) >>,
                       outFile)
       ELSE StepResult([job EXCEPT !.io = Append(ioPage, IoOp("draw", job.outputPath)),
                                   !.pageSize = size,
                                   !.document = drawn,
                                   !.index = job.index + 1],
                       << ProgressEv(Percent(job.index, Len(job.imagePaths))) >>,
                       FileWrite(job.id, outFile, drawn))

\* finished emitted with the painter still active
FinishStepEmitFirst(job) ==
    StepResult([job EXCEPT !.pc = "return"],
               << FinishedEv(job.outputPath) >>,
               outFile)

\* painter.end(); emit finished(outputPath)
FinishStep(job) ==
    StepResult([job EXCEPT !.pc = "return", !.painterActive = FALSE,
                           !.io = Append(job.io, IoOp("end", job.outputPath))],
               << FinishedEv(job.outputPath) >>,
               FileFinalize(job.id, outFile))

\* a return that removes the document of a painter that is still active
ReturnStepRollback(job) ==
    IF job.painterActive
    THEN StepResult([job EXCEPT !.pc = "done", !.painterActive = FALSE,
                                !.io = Append(job.io, IoOp("end", job.outputPath))],
                    <<>>,
                    IF outFile.owner = job.id
                    THEN [outFile EXCEPT !.exists = FALSE, !.pages = <<>>]
                    ELSE outFile)
    ELSE StepResult([job EXCEPT !.pc = "done"], <<>>, outFile)

\* process() returns: a painter that is still active ends in its destructor
ReturnStep(job) ==
    IF job.painterActive
    THEN StepResult([job EXCEPT !.pc = "done", !.painterActive = FALSE,
                                !.io = Append(job.io, IoOp("end", job.outputPath))],
                    <<>>, FileFinalize(job.id, outFile))
    ELSE StepResult([job EXCEPT !.pc = "done"], <<>>, outFile)

(* ------------------------------ actions ------------------------------- *)
\* a step of worker j takes effect: its signals are queued for the GUI thread
Apply(j, r) ==
    /\ jobs' = [jobs EXCEPT ![j] = r.job]
    /\ mainQueue' = mainQueue \o [k \in 1..Len(r.evs) |-> [job |-> j, ev |-> r.evs[k]]]
    /\ outFile' = r.file
    /\ UNCHANGED <<folderExists, entries, writable, pathEdit, convertEnabled,
                   progressValue, statusText, lastDialog>>

Begin(j) ==
    /\ jobs[j].pc = "start"
    /\ Len(mainQueue) < MaxQueue
    /\ LET r == BeginStep(jobs[j]) IN Apply(j, r)

ListFiles(j) ==
    /\ jobs[j].pc = "list"
    /\ Len(mainQueue) < MaxQueue
    /\ LET r == ListStep(jobs[j]) IN Apply(j, r)

DecodeFirst(j) ==
    /\ jobs[j].pc = "first"
    /\ Len(mainQueue) < MaxQueue
    /\ LET r == FirstImageStep(jobs[j]) IN Apply(j, r)

OpenWriter(j) ==
    /\ jobs[j].pc = "open"
    /\ Len(mainQueue) < MaxQueue
    /\ LET r == OpenWriterStep(jobs[j]) IN Apply(j, r)

ComposeNext(j) ==
    /\ jobs[j].pc = "loop"
    /\ jobs[j].index < Len(jobs[j].imagePaths)
    /\ Len(mainQueue) < MaxQueue
    /\ LET r == LoopStep(jobs[j]) IN Apply(j, r)

Finish(j) ==
    /\ jobs[j].pc = "loop"
    /\ jobs[j].index >= Len(jobs[j].imagePaths)
    /\ Len(mainQueue) < MaxQueue
    /\ LET r == FinishStep(jobs[j]) IN Apply(j, r)

Return(j) ==
    /\ jobs[j].pc = "return"
    /\ LET r == ReturnStep(jobs[j]) IN Apply(j, r)

\* QProgressBar::setValue, range 0..100
SetProgress(value) ==
    IF value >= ProgressMin /\ value <= ProgressMax THEN value ELSE progressValue

\* MainWindow::browseFolder: the dialog returns an existing directory, or
\* nothing when it is cancelled
browseFolder ==
    /\ \E folder \in {<<>>} \cup (IF folderExists THEN {FolderPath} ELSE {}) :
          pathEdit' = IF folder # <<>> THEN folder ELSE pathEdit
    /\ UNCHANGED <<folderExists, entries, writable, outFile, convertEnabled,
                   progressValue, statusText, lastDialog, jobs, mainQueue>>

\* what startConversion does with the text of the path field
StartOutcome(text) ==
    LET folder == Trimmed(text)
    IN IF folder = <<>> THEN "missing"
       ELSE IF ~DirExists(folder) THEN "invalid"
       ELSE "start"

\* MainWindow::startConversion, on a click of the enabled convert button
startConversion ==
    /\ convertEnabled
    /\ LET outcome == StartOutcome(pathEdit)
       IN \/ /\ outcome = "missing"
             /\ lastDialog' = Dialog("warning", "Missing folder",
                                     Msg("Please provide a folder path.", <<>>))
             /\ UNCHANGED <<convertEnabled, progressValue, statusText, jobs>>
          \/ /\ outcome = "invalid"
             /\ lastDialog' = Dialog("critical", "Invalid folder",
                                     Msg("The provided path is not a folder.", <<>>))
             /\ UNCHANGED <<convertEnabled, progressValue, statusText, jobs>>
          \/ /\ outcome = "start"
             /\ Len(jobs) < MaxJobs
             /\ convertEnabled' = FALSE
             /\ progressValue' = SetProgress(0)
             /\ statusText' = Msg("Preparing conversion...", <<>>)
             /\ jobs' = Append(jobs, NewJob(Trimmed(pathEdit), Len(jobs) + 1))
             /\ UNCHANGED lastDialog
    /\ UNCHANGED <<folderExists, entries, writable, outFile, pathEdit, mainQueue>>

\* a queued progress signal reaches QProgressBar::setValue
DeliverProgress ==
    /\ mainQueue # <<>>
    /\ Head(mainQueue).ev.type = "progress"
    /\ progressValue' = SetProgress(Head(mainQueue).ev.value)
    /\ mainQueue' = Tail(mainQueue)
    /\ UNCHANGED <<folderExists, entries, writable, outFile, pathEdit,
                   convertEnabled, statusText, lastDialog, jobs>>

\* a queued status signal reaches QLabel::setText
DeliverStatus ==
    /\ mainQueue # <<>>
    /\ Head(mainQueue).ev.type = "status"
    /\ statusText' = Head(mainQueue).ev.msg
    /\ mainQueue' = Tail(mainQueue)
    /\ UNCHANGED <<folderExists, entries, writable, outFile, pathEdit,
                   convertEnabled, progressValue, lastDialog, jobs>>

\* MainWindow::onFinished
onFinished ==
    /\ mainQueue # <<>>
    /\ Head(mainQueue).ev.type = "finished"
    /\ statusText' = Msg("Done! Saved to %1", Head(mainQueue).ev.msg.path)
    /\ convertEnabled' = TRUE
    /\ mainQueue' = Tail(mainQueue)
    /\ UNCHANGED <<folderExists, entries, writable, outFile, pathEdit,
                   progressValue, lastDialog, jobs>>

\* onFailed with the button left disabled
onFailedNoRearm ==
    /\ mainQueue # <<>>
    /\ Head(mainQueue).ev.type = "failed"
    /\ lastDialog' = Dialog("critical", "Conversion error", Head(mainQueue).ev.msg)
    /\ statusText' = Msg("Ready", <<>>)
    /\ progressValue' = SetProgress(0)
    /\ mainQueue' = Tail(mainQueue)
    /\ UNCHANGED <<folderExists, entries, writable, outFile, pathEdit, jobs,
                   convertEnabled>>

\* MainWindow::onFailed, the message box dismissed
onFailed ==
    /\ mainQueue # <<>>
    /\ Head(mainQueue).ev.type = "failed"
    /\ lastDialog' = Dialog("critical", "Conversion error", Head(mainQueue).ev.msg)
    /\ statusText' = Msg("Ready", <<>>)
    /\ progressValue' = SetProgress(0)
    /\ convertEnabled' = TRUE
    /\ mainQueue' = Tail(mainQueue)
    /\ UNCHANGED <<folderExists, entries, writable, outFile, pathEdit, jobs>>

\* another program removes the folder while no worker is working in it: before
\* a click, or between startConversion's check and the worker's own
ExternalRemoveFolder ==
    /\ folderExists
    /\ \A j \in DOMAIN jobs : jobs[j].pc \in {"start", "done"}
    /\ folderExists' = FALSE
    /\ entries' = {}
    /\ outFile' = AbsentFile
    /\ UNCHANGED <<writable, pathEdit, convertEnabled, progressValue, statusText,
                   lastDialog, jobs, mainQueue>>

(* ----------------------------- the folders ---------------------------- *)
\* "a.png", "B.jpg", "C.PNG": supported; "n.txt": not supported; "d.bmp": a
\* directory; "u.tif": a file that cannot be read
NameA == <<97, 46, 112, 110, 103>>
NameB == <<66, 46, 106, 112, 103>>
NameC == <<67, 46, 80, 78, 71>>
NameTxt == <<110, 46, 116, 120, 116>>
NameDir == <<100, 46, 98, 109, 112>>
NameUnreadable == <<117, 46, 116, 105, 102>>

CandidateEntries ==
    {Entry(n, TRUE, TRUE, d) : n \in {NameA, NameB, NameC},
                               d \in ImageData \cup {CorruptData}}
    \cup {Entry(NameTxt, TRUE, TRUE, CorruptData),
          Entry(NameDir, FALSE, TRUE, CorruptData),
          Entry(NameUnreadable, TRUE, FALSE, Image(100, 200))}

\* folders of at most MaxFiles entries, no two with the same name
SmallFolders ==
    {S \in SUBSET CandidateEntries :
        /\ Cardinality(S) <= MaxFiles
        /\ \A e1, e2 \in S : e1.name = e2.name => e1 = e2}

\* "001.png", "002.png", ...
NumberedName(i) ==
    <<48 + (i \div 100), 48 + ((i \div 10) % 10), 48 + (i % 10), 46, 112, 110, 103>>

\* folders of MaxBig - BigSpan .. MaxBig images, all alike
BigFolders ==
    {{Entry(NumberedName(i), TRUE, TRUE, Image(100, 200)) : i \in 1..n} :
        n \in (MaxBig - BigSpan)..MaxBig}

\* " ", "/F "
PathTexts == {<<>>, <<32>>, <<47, 70, 32>>}

InitWindow ==
    /\ convertEnabled = TRUE
    /\ progressValue = 0
    /\ statusText = Msg("Ready", <<>>)
    /\ lastDialog = NoDialog
    /\ jobs = <<>>
    /\ mainQueue = <<>>

Init ==
    /\ folderExists = TRUE
    /\ InitWindow
    /\ \/ /\ entries \in SmallFolders
          /\ writable \in BOOLEAN
          /\ outFile \in {AbsentFile, LeftoverFile}
          /\ pathEdit \in PathTexts
       \/ /\ entries \in BigFolders
          /\ writable = TRUE
          /\ outFile = AbsentFile
          /\ pathEdit = FolderPath

Next ==
    \/ \E j \in DOMAIN jobs : Begin(j)
    \/ \E j \in DOMAIN jobs : ListFiles(j)
    \/ \E j \in DOMAIN jobs : DecodeFirst(j)
    \/ \E j \in DOMAIN jobs : OpenWriter(j)
    \/ \E j \in DOMAIN jobs : ComposeNext(j)
    \/ \E j \in DOMAIN jobs : Finish(j)
    \/ \E j \in DOMAIN jobs : Return(j)
    \/ browseFolder
    \/ startConversion
    \/ DeliverProgress
    \/ DeliverStatus
    \/ onFinished
    \/ onFailed
    \/ ExternalRemoveFolder

Spec == Init /\ [][Next]_vars

\* the steps of worker j, run by its thread
Worker(j) ==
    /\ j \in DOMAIN jobs
    /\ \/ Begin(j)
       \/ ListFiles(j)
       \/ DecodeFirst(j)
       \/ OpenWriter(j)
       \/ ComposeNext(j)
       \/ Finish(j)
       \/ Return(j)

\* the GUI thread's event loop delivers the queued signals
Deliver == DeliverProgress \/ DeliverStatus \/ onFinished \/ onFailed

\* the folders that take process() down each of its paths: no entry, no
\* image, a first image that does not decode, a later one that does not, all
\* images good
LiveFolders ==
    {S \in SmallFolders :
        \A e \in S : /\ e.name \in {NameA, NameB, NameTxt}
                      /\ e.data \in {Image(100, 200), CorruptData}}

LiveInit ==
    /\ folderExists = TRUE
    /\ InitWindow
    /\ entries \in LiveFolders
    /\ writable \in BOOLEAN
    /\ outFile = AbsentFile
    /\ pathEdit \in {<<>>, <<47, 70, 32>>}

\* a started thread keeps running its worker, and the event loop keeps
\* delivering what is queued
LiveSpec ==
    /\ LiveInit
    /\ [][Next]_vars
    /\ \A j \in 1..MaxJobs : WF_vars(Worker(j))
    /\ WF_vars(Deliver)

(* ======================= the claims, C1 onwards ======================= *)
SupportedExtensions ==
    { <<106, 112, 103>>, <<106, 112, 101, 103>>, <<112, 110, 103>>,
      <<116, 105, 102>>, <<116, 105, 102, 102>>, <<98, 109, 112>>,
      <<119, 101, 98, 112>> }

\* a file name with a supported extension, whatever its case
SupportedName(name) ==
    \E ext \in SupportedExtensions : EndsWith(LowerStr(name), <<46>> \o ext)

\* the images of the folder a scan has to yield
SupportedEntries == {e \in entries : e.isFile /\ e.readable /\ SupportedName(e.name)}

IsTerminal(ev) == ev.type \in {"finished", "failed"}

TerminalCount(log) == Cardinality({k \in 1..Len(log) : IsTerminal(log[k])})

\* process() has emitted its last signal and is returning, or has returned
Ended(job) == job.pc \in {"return", "done"}

HasFinished(job) == \E k \in 1..Len(job.log) : job.log[k].type = "finished"

HasFailed(job) == \E k \in 1..Len(job.log) : job.log[k].type = "failed"

IsProgress(ev) == ev.type = "progress"

\* the values carried by the progress events of a log, in order of emission
ProgressValues(log) ==
    LET events == SelectSeq(log, IsProgress)
    IN [k \in 1..Len(events) |-> events[k].value]

\* C1: every run of process emits exactly one terminal event, finished or
\* failed, never both, never twice, and nothing after it: a worker that has
\* not ended has emitted none, one that has ended has emitted one, as its last
\* signal
C1_OneTerminalEvent ==
    \A j \in DOMAIN jobs :
        LET log == jobs[j].log
        IN IF Ended(jobs[j])
           THEN /\ TerminalCount(log) = 1
                /\ IsTerminal(log[Len(log)])
           ELSE TerminalCount(log) = 0

C1_Witness ==
    \E j \in DOMAIN jobs :
        /\ jobs[j].pc = "done"
        /\ HasFailed(jobs[j])
        /\ \E k \in 1..Len(jobs[j].log) : jobs[j].log[k].type = "progress"

\* the names are in scan order: the supported images of the folder, each once,
\* ascending by file name without regard to case
IsScanOrder(files) ==
    /\ {files[k] : k \in 1..Len(files)} = {e.name : e \in SupportedEntries}
    /\ \A k \in 1..(Len(files) - 1) :
          StrLess(LowerStr(files[k]), LowerStr(files[k + 1]))

EntryNamed(name) == CHOOSE e \in entries : e.name = name

\* C2: a job that ends with finished over a folder of N >= 1 decodable
\* supported images has produced a document of exactly N pages; page k holds
\* image k of the scan order (case-insensitive alphabetical by file name) and
\* measures width * 72 / 150 by height * 72 / 150 points, so it has the
\* image's aspect ratio; 100x200 px gives 48x96 pt, 400x100 px gives 192x48 pt
C2_PagesMatchImages ==
    \A j \in DOMAIN jobs :
        (HasFinished(jobs[j]) /\ outFile.owner = jobs[j].id) =>
            LET files == jobs[j].files
                pages == outFile.pages
            IN /\ IsScanOrder(files)
               /\ Len(files) >= 1
               /\ Len(pages) = Cardinality(SupportedEntries)
               /\ \A k \in 1..Len(pages) :
                     LET image == EntryNamed(files[k]).data
                         page == pages[k]
                     IN /\ ~image.null
                        /\ page.image = image
                        /\ page.size.w.num * 150 = image.width * 72 * page.size.w.den
                        /\ page.size.h.num * 150 = image.height * 72 * page.size.h.den
                        /\ page.size.w.num * page.size.h.den * image.height
                              = page.size.h.num * page.size.w.den * image.width
                        /\ image = Image(100, 200) =>
                              RatEq(page.size.w, Pt(48)) /\ RatEq(page.size.h, Pt(96))
                        /\ image = Image(400, 100) =>
                              RatEq(page.size.w, Pt(192)) /\ RatEq(page.size.h, Pt(48))

C2_Witness ==
    \E j \in DOMAIN jobs :
        /\ HasFinished(jobs[j])
        /\ outFile.owner = jobs[j].id
        /\ jobs[j].files = <<NameA, NameB>>
        /\ Len(outFile.pages) = 2
        /\ outFile.pages[1].image = Image(100, 200)
        /\ outFile.pages[2].image = Image(400, 100)

StrictlyIncreasing(seq) == \A k \in 1..(Len(seq) - 1) : seq[k] < seq[k + 1]

NonDecreasing(seq) == \A k \in 1..(Len(seq) - 1) : seq[k] <= seq[k + 1]

\* C3, as claimed: for every successful job, of any number N >= 1 of images
\* (N > 100 included), the progress values are strictly increasing and the
\* last one is exactly 100
C3_Original ==
    \A j \in DOMAIN jobs :
        HasFinished(jobs[j]) =>
            LET values == ProgressValues(jobs[j].log)
            IN /\ Len(values) >= 1
               /\ StrictlyIncreasing(values)
               /\ values[Len(values)] = 100

\* C3, amended: for every successful job of N >= 1 images the progress values
\* never decrease and the last one is exactly 100; they are strictly
\* increasing when N <= 101
C3_ProgressMonotone ==
    \A j \in DOMAIN jobs :
        HasFinished(jobs[j]) =>
            LET values == ProgressValues(jobs[j].log)
                n == Len(jobs[j].imagePaths)
            IN /\ Len(values) >= 1
               /\ n >= 1
               /\ NonDecreasing(values)
               /\ values[Len(values)] = 100
               /\ n <= 101 => StrictlyIncreasing(values)

C3_Witness ==
    \E j \in DOMAIN jobs :
        /\ HasFinished(jobs[j])
        /\ Len(jobs[j].imagePaths) = 102
        /\ Len(ProgressValues(jobs[j].log)) = 102
        /\ ~StrictlyIncreasing(ProgressValues(jobs[j].log))

Last(seq) == seq[Len(seq)]

\* C4, as claimed: when an asset fails to decode, at any index of the scanned
\* list, the first one included, the job ends with a failed event whose
\* message names the path of that asset, and with no finished event. A worker
\* that has ended right after a decode has ended on a decode failure
C4_FailureNamesPath ==
    \A j \in DOMAIN jobs :
        (Ended(jobs[j]) /\ jobs[j].io # <<>> /\ Last(jobs[j].io).op = "decode") =>
            /\ Last(jobs[j].log).type = "failed"
            /\ Last(jobs[j].log).msg.path = Last(jobs[j].io).path
            /\ ~HasFinished(jobs[j])

NoImagesFound == FailedEv(Msg("No images found in the selected folder.", <<>>))

FolderNotFound == FailedEv(Msg("The provided folder does not exist.", <<>>))

WritesOutput(op) == op.op \in {"open", "newPage", "draw", "end"}

\* the folder exists and holds no image a scan has to yield
NoSupportedImages ==
    /\ folderExists
    /\ \A e \in entries : ~(e.isFile /\ e.readable /\ SupportedName(e.name))

C5_State ==
    NoSupportedImages =>
        /\ outFile.owner = 0
        /\ outFile \in {AbsentFile, LeftoverFile}
        /\ \A j \in DOMAIN jobs :
              (Ended(jobs[j]) /\ jobs[j].dirExists) =>
                  /\ jobs[j].log = << StatusEv("Scanning folder..."), NoImagesFound >>
                  /\ \A k \in 1..Len(jobs[j].io) : ~WritesOutput(jobs[j].io[k])

\* C5: over an existing folder with no supported image (only unsupported
\* extensions, or an images.pdf of an earlier run besides) the job ends with
\* the NoImagesFound failure, and no step taken while the folder is there
\* creates or changes the output file
C5_NoImagesNoOutput ==
    /\ []C5_State
    /\ [][(outFile' # outFile /\ folderExists') => ~NoSupportedImages]_vars

C5_Witness ==
    /\ NoSupportedImages
    /\ entries # {}
    /\ outFile = LeftoverFile
    /\ \E j \in DOMAIN jobs : jobs[j].pc = "done" /\ jobs[j].dirExists

\* C6: when the folder does not exist as process runs, the job ends with the
\* FolderNotFound failure before any directory listing, image decode or write
\* to the output file; the Scanning status and the failed event are the only
\* events it emits
C6_FolderNotFoundFirst ==
    \A j \in DOMAIN jobs :
        (jobs[j].pc # "start" /\ ~jobs[j].dirExists) =>
            /\ jobs[j].log = << StatusEv("Scanning folder..."), FolderNotFound >>
            /\ jobs[j].io = << IoOp("exists", jobs[j].folderPath_) >>
            /\ Ended(jobs[j])

C6_Witness ==
    \E j \in DOMAIN jobs :
        /\ jobs[j].pc = "done"
        /\ ~jobs[j].dirExists
        /\ lastDialog.msg = FolderNotFound.msg

\* the terminal event of job j waits in the GUI thread's queue
TerminalPending(j) ==
    \E k \in 1..Len(mainQueue) : mainQueue[k].job = j /\ IsTerminal(mainQueue[k].ev)

\* job j has been started and its terminal event has not been handled yet
InFlight(j) == ~Ended(jobs[j]) \/ TerminalPending(j)

\* process() of job j has not returned and has work left: a step to take, or
\* an open writer to finalise and close on the way out
Running(j) ==
    /\ jobs[j].pc # "done"
    /\ jobs[j].pc = "return" => jobs[j].painterActive

\* from the start of a job to the handling of its terminal event the convert
\* button is disabled, and no other job is in that interval
ButtonDisabledInFlight ==
    /\ \A j \in DOMAIN jobs : InFlight(j) => ~convertEnabled
    /\ Cardinality({j \in DOMAIN jobs : InFlight(j)}) <= 1

\* C7, as claimed: no second job is started while one is in flight: the
\* convert button is disabled from a job's start to the handling of its
\* terminal event, so at most one worker is ever running
C7_OneWorkerRunning ==
    /\ ButtonDisabledInFlight
    /\ Cardinality({j \in DOMAIN jobs : Running(j)}) <= 1

\* the terminal event of job j has been emitted and handled
Handled(j) == j \in DOMAIN jobs /\ Ended(jobs[j]) /\ ~TerminalPending(j)

\* C8: every started job reaches a terminal state, its terminal event is
\* handled and the convert button is enabled again: starting a job disables
\* the button, and whenever the button is disabled a state follows in which it
\* is enabled and every started job has ended with its terminal event handled
C8_JobsEndAndRearm ==
    (~convertEnabled) ~> (convertEnabled /\ \A j \in DOMAIN jobs : Handled(j))

C8_Witness ==
    \E j \in DOMAIN jobs :
        /\ Handled(j)
        /\ HasFailed(jobs[j])
        /\ convertEnabled
        /\ lastDialog.title = "Conversion error"

Scanning == StatusEv("Scanning folder...")

Creating == StatusEv("Creating PDF...")

\* the status of a job after the events of a log: Idle before any event,
\* Scanning from the first status event, Composing from the second, Completed
\* or Failed from the terminal event
Phase(log) ==
    IF log = <<>> THEN "Idle"
    ELSE IF Last(log).type = "finished" THEN "Completed"
    ELSE IF Last(log).type = "failed" THEN "Failed"
    ELSE IF \E k \in 1..Len(log) : log[k] = Creating THEN "Composing"
    ELSE "Scanning"

\* the transitions of the job's state machine; a progress event leaves the
\* job Composing
Forward(from, to, ev) ==
    \/ from = "Idle" /\ to = "Scanning" /\ ev = Scanning
    \/ from = "Scanning" /\ to = "Composing" /\ ev = Creating
    \/ from = "Scanning" /\ to = "Failed"
    \/ from = "Composing" /\ to = "Failed"
    \/ from = "Composing" /\ to = "Completed"
    \/ from = "Composing" /\ to = "Composing" /\ ev.type = "progress"

Count(seq, x) == Cardinality({k \in 1..Len(seq) : seq[k] = x})

OpCount(io, op) == Cardinality({k \in 1..Len(io) : io[k].op = op})

\* C9: a job's status only moves forward along Idle -> Scanning -> Composing
\* -> {Completed, Failed}: every event of its log is one of these transitions
\* (so Scanning is the first event, progress occurs only while Composing and
\* Completed follows Composing only), the Creating status is emitted exactly
\* when the scan yielded images, each status is entered once, and the
\* existence test, the listing and the opening of the writer are done once
C9_StatusForward ==
    \A j \in DOMAIN jobs :
        LET log == jobs[j].log
        IN /\ (jobs[j].pc = "start") <=> (log = <<>>)
           /\ \A k \in 1..Len(log) :
                 Forward(Phase(SubSeq(log, 1, k - 1)), Phase(SubSeq(log, 1, k)), log[k])
           /\ Count(log, Scanning) <= 1
           /\ Count(log, Creating) <= 1
           /\ (Count(log, Creating) = 1) <=> (jobs[j].files # <<>>)
           /\ OpCount(jobs[j].io, "exists") <= 1
           /\ OpCount(jobs[j].io, "list") <= 1
           /\ OpCount(jobs[j].io, "open") <= 1

C9_Witness ==
    \E j \in DOMAIN jobs :
        /\ Len(jobs[j].log) = 5
        /\ jobs[j].log[1] = Scanning
        /\ jobs[j].log[2] = Creating
        /\ jobs[j].log[3].type = "progress"
        /\ jobs[j].log[4].type = "progress"
        /\ jobs[j].log[5].type = "finished"

\* C10: no job produces a document without pages: when a job has ended and
\* the output file is the one it created or overwrote, the document holds at
\* least one page with a rendered image; a scan that yields no file ends in
\* Failed, never in Completed
C10_NoEmptyDocument ==
    \A j \in DOMAIN jobs :
        Ended(jobs[j]) =>
            /\ outFile.owner = jobs[j].id =>
                  /\ outFile.exists
                  /\ Len(outFile.pages) >= 1
                  /\ \E k \in 1..Len(outFile.pages) : ~outFile.pages[k].image.null
            /\ jobs[j].files = <<>> => (HasFailed(jobs[j]) /\ ~HasFinished(jobs[j]))

C10_Witness ==
    \E j \in DOMAIN jobs :
        /\ Ended(jobs[j])
        /\ HasFailed(jobs[j])
        /\ outFile.owner = jobs[j].id
        /\ Len(outFile.pages) = 1
        /\ ~outFile.pages[1].image.null

\* the sizes of the pages of a document, in page order
PageSizes(pages) == [k \in 1..Len(pages) |-> pages[k].size]

\* C11: two successful runs over the same folder, its image files unchanged,
\* give the same output: a later job over the folder that saw a job finish
\* finishes too, with the same scan, the same page count, the same page sizes
\* in the same order and the same drawn pages, written to the same path
\* <folder>/images.pdf, which holds the later job's document until a job
\* after it opens the path; and no scan of any job lists images.pdf as an
\* asset
C11_SameOutputTwice ==
    /\ \A j \in DOMAIN jobs :
          /\ \A k \in 1..Len(jobs[j].files) : jobs[j].files[k] # kOutputFilename
          /\ jobs[j].outputPath \in
                {<<>>, AbsoluteFilePath(jobs[j].folderPath_, kOutputFilename)}
    /\ \A j1, j2 \in DOMAIN jobs :
          (/\ j1 < j2
           /\ HasFinished(jobs[j1])
           /\ jobs[j2].dirExists
           /\ Ended(jobs[j2])) =>
              /\ HasFinished(jobs[j2])
              /\ jobs[j2].files = jobs[j1].files
              /\ jobs[j2].outputPath = jobs[j1].outputPath
              /\ Len(jobs[j2].document) = Len(jobs[j1].document)
              /\ PageSizes(jobs[j2].document) = PageSizes(jobs[j1].document)
              /\ jobs[j2].document = jobs[j1].document
              /\ (/\ outFile.exists
                  /\ \A j3 \in DOMAIN jobs : j3 > j2 => jobs[j3].document = <<>>) =>
                    /\ outFile.owner = jobs[j2].id
                    /\ outFile.complete
                    /\ ~outFile.clobbered
                    /\ outFile.pages = jobs[j1].document

C11_Witness ==
    /\ Len(jobs) = 2
    /\ HasFinished(jobs[1])
    /\ HasFinished(jobs[2])
    /\ jobs[2].files = <<NameA, NameB>>
    /\ Len(jobs[1].document) = 2
    /\ outFile.owner = jobs[2].id
    /\ outFile.pages = jobs[1].document

\* the integer nearest to a / b, halves upwards (a >= 0, b > 0)
RoundDiv(a, b) == (2 * a + b) \div (2 * b)

\* C12, as claimed: for every asset count N >= 1 and every index i in 0..N-1
\* the progress event emitted after drawing asset i carries
\* round((i+1) * 100 / N), the integer nearest to the exact quotient
C12_ProgressRounded ==
    \A j \in DOMAIN jobs :
        LET values == ProgressValues(jobs[j].log)
            N == Len(jobs[j].imagePaths)
        IN \A k \in 1..Len(values) : values[k] = RoundDiv(k * 100, N)

\* C13: on the success path the writer is finalised exactly once, after the
\* last asset was drawn, and finished is emitted only after it: a job that has
\* emitted finished has drawn all its N assets, has ended its painter once, as
\* its last operation and right after the last draw, and holds no active
\* painter; nothing follows the finalisation, so the document keeps its N
\* pages, and the file, while this job's, is complete and holds them
C13_FinalizedOnceBeforeFinished ==
    \A j \in DOMAIN jobs :
        HasFinished(jobs[j]) =>
            LET io == jobs[j].io
                N == Len(jobs[j].imagePaths)
            IN /\ ~jobs[j].painterActive
               /\ OpCount(io, "end") = 1
               /\ OpCount(io, "draw") = N
               /\ Last(io).op = "end"
               /\ io[Len(io) - 1].op = "draw"
               /\ Len(jobs[j].document) = N
               /\ Last(jobs[j].log).type = "finished"
               /\ outFile.owner = jobs[j].id =>
                     /\ outFile.complete
                     /\ ~outFile.clobbered
                     /\ outFile.pages = jobs[j].document

C13_Witness ==
    \E j \in DOMAIN jobs :
        /\ HasFinished(jobs[j])
        /\ jobs[j].pc = "done"
        /\ Len(jobs[j].imagePaths) = 2
        /\ OpCount(jobs[j].io, "end") = 1
        /\ outFile.owner = jobs[j].id
        /\ outFile.complete

\* the job has failed on the decoding of the asset of index i: in step 1 with
\* the message of the first image, in the loop with the message that names
\* the path of the asset
FailedOnDecode(job, i) ==
    /\ HasFailed(job)
    /\ i < Len(job.imagePaths)
    /\ \/ /\ i = 0
          /\ Last(job.log).msg = Msg("The first image could not be loaded.", <<>>)
       \/ Last(job.log).msg = Msg("Failed to load image: %1", job.imagePaths[i + 1])

\* C14: progress events are emitted one per asset, in increasing order of the
\* asset index: the k-th progress event of a job is the one of asset k-1 and
\* there are as many as assets drawn; a job that finished over N assets has
\* emitted N of them, and a job that failed on decoding asset i has emitted
\* exactly i of them, all before its failed event
C14_OneProgressPerAsset ==
    \A j \in DOMAIN jobs :
        LET log == jobs[j].log
            N == Len(jobs[j].imagePaths)
            progressAt == {k \in 1..Len(log) : IsProgress(log[k])}
            count == Cardinality(progressAt)
        IN /\ count = OpCount(jobs[j].io, "draw")
           \* they follow the two status events, one after the other
           /\ progressAt = 3..(2 + count)
           /\ \A k \in progressAt : log[k].value = Percent(k - 3, N)
           /\ (log # <<>> /\ Last(log).type = "finished") => count = N
           /\ (log # <<>> /\ Last(log).type = "failed") =>
                 \A i \in 0..(N - 1) :
                     FailedOnDecode(jobs[j], i) =>
                         /\ count = i
                         /\ \A k \in progressAt : k < Len(log)
           /\ HasFinished(jobs[j]) => Last(log).type = "finished"
           /\ HasFailed(jobs[j]) => Last(log).type = "failed"

C14_Witness ==
    \E j \in DOMAIN jobs :
        /\ jobs[j].files = <<NameA, NameB>>
        /\ FailedOnDecode(jobs[j], 1)
        /\ Len(ProgressValues(jobs[j].log)) = 1

\* C15, as claimed: during a job every asset is decoded at most once; the
\* first asset is decoded in step 1, before the writer is opened, and not
\* again inside the loop, so the image that sets the geometry of page 1 is
\* the decoded image that is drawn on it
C15_DecodedOnce ==
    \A j \in DOMAIN jobs :
        LET io == jobs[j].io
            decodesAt == {k \in 1..Len(io) : io[k].op = "decode"}
            opensAt == {k \in 1..Len(io) : io[k].op = "open"}
        IN /\ Cardinality({io[k].path : k \in decodesAt}) = Cardinality(decodesAt)
           /\ \A k \in decodesAt :
                 io[k].path = jobs[j].imagePaths[1] => \A o \in opensAt : k < o

\* the last signal of the job is the failure of a decode inside the loop
HasLoopFailure(job) ==
    /\ job.log # <<>>
    /\ Last(job.log).type = "failed"
    /\ Last(job.log).msg.text = "Failed to load image: %1"

\* the job has failed inside the loop on the decoding of the asset of index i
FailedInLoop(job, i) ==
    /\ job.log # <<>>
    /\ Last(job.log) = FailedEv(Msg("Failed to load image: %1", job.imagePaths[i + 1]))

C17_WriterReleasedAtTerminal ==
    /\ \A j \in DOMAIN jobs :
          (jobs[j].log # <<>> /\ IsTerminal(Last(jobs[j].log))) =>
              ~jobs[j].painterActive
    /\ convertEnabled => \A j \in DOMAIN jobs : ~jobs[j].painterActive

\* the job has failed in step 1, on the decoding of its first asset
FirstImageFailed(job) ==
    /\ job.log # <<>>
    /\ Last(job.log) = FailedEv(Msg("The first image could not be loaded.", <<>>))

C18_State ==
    \A j \in DOMAIN jobs :
        FirstImageFailed(jobs[j]) =>
            /\ Last(jobs[j].io) = IoOp("decode", jobs[j].imagePaths[1])
            /\ \A k \in 1..Len(jobs[j].io) : ~WritesOutput(jobs[j].io[k])
            /\ \A k \in 1..Len(jobs[j].log) : ~IsProgress(jobs[j].log[k])
            /\ ~jobs[j].painterActive
            /\ jobs[j].document = <<>>
            /\ outFile.owner # jobs[j].id

\* a step of a job that has opened no writer leaves the output file as it is
C18_Step ==
    \A j \in DOMAIN jobs :
        (/\ jobs'[j] # jobs[j]
         /\ OpCount(jobs'[j].io, "open") = 0) => outFile' = outFile

\* C18: when the first asset cannot be decoded in step 1 the job fails before
\* the writer is created: its last operation is that decode, it has opened,
\* drawn and closed nothing and emitted no progress event, and none of its
\* steps has created or changed images.pdf (one left by an earlier run is
\* unchanged)
C18_FirstImageFailureNoOutput == []C18_State /\ [][C18_Step]_vars

C18_Witness ==
    \E j \in DOMAIN jobs :
        /\ FirstImageFailed(jobs[j])
        /\ jobs[j].pc = "done"
        /\ folderExists
        /\ outFile = LeftoverFile

====
